---- MODULE Spec2Model ----
(***************************************************************************)
(* Model of app.py: the Streamlit page that shows the drought-order zones  *)
(* ("arretes secheresse") for surface water together with the COP          *)
(* itinerary.  One page render is one execution of main(); Streamlit       *)
(* re-executes the whole script on every interaction, only the             *)
(* st.cache_data memo of lire_geopandas survives from one render to the    *)
(* next.  Each statement of main() and of get_zones_secheresse() is one    *)
(* action, so that the order of the steps is observable.                   *)
(*                                                                         *)
(* Conventions.  An absent value (Python None / unset local) is the empty  *)
(* sequence << >>, a present value v is << v >>.  A layer (GeoDataFrame)   *)
(* is a record [crs, feats].  Coordinates are integers.  The projection    *)
(* mathematics belongs to pyproj; it is represented by an injective map    *)
(* that is not the identity (Projeter / Deprojeter).                       *)
(***************************************************************************)
EXTENDS Naturals, Integers, Sequences, FiniteSets

VARIABLES
  fichier,        \* content of ./donnees/Export_Itineraire_COP.gpkg (static)
  cache,          \* st.cache_data memo of lire_geopandas: path -> << >> or <<layer>>
  demandes,       \* paths lire_geopandas has been called with in the session
  nbLectures,     \* number of executions of gpd.read_file(fic_couche) (line 64)
  premier,        \* first result lire_geopandas returned for each path
  nbReprojItin,   \* number of coordinate transformations done on the itinerary
  rendu,          \* number of the current page render (0 before the first)
  pc,             \* position of main() in the current render
  itineraire,     \* main's local 'itineraire'
  rep,            \* get_zones_secheresse's local 'rep' (HTTP response)
  zones_lues,     \* what gpd.read_file(fio) returned, before the filter
  zones_arretes,  \* local 'zones_arretes' (after the filter, then in main)
  carte,          \* main's local 'carte'
  affiche,        \* st_folium has shown the map in the current render
  erreur,         \* exception that aborted the current render, "" if none
  trace           \* components that ran in the current render, in order

vars == << fichier, cache, demandes, nbLectures, premier, nbReprojItin, rendu,
           pc, itineraire, rep, zones_lues, zones_arretes, carte, affiche,
           erreur, trace >>

----------------------------------------------------------------------------
(* Bounds of the model *)

MaxRendus == 2
MaxZones == 2

----------------------------------------------------------------------------
(* Program constants *)

fic_couche == "./donnees/Export_Itineraire_COP.gpkg"
Chemins == { fic_couche }

WGS84 == "EPSG:4326"
Lambert93 == "EPSG:2154"
SansCRS == "None"
CRSConnus == { WGS84, Lambert93 }

niveaux == << "vigilance", "alerte", "alerte renforcée", "crise" >>
couleurs == << "#ffeda0", "#feb24c", "#fc4e2a", "#b10026" >>
NaN == "NaN"
centre == << 46463, 2661 >>      \* [46.463, 2.661] in thousandths of a degree

CoucheVide == [ crs |-> SansCRS, feats |-> << >> ]

----------------------------------------------------------------------------
(* Inputs the environment supplies *)

Types == { "SUP", "SOU" }
Gravites == { "vigilance", "alerte", "alerte renforcée", "crise", "autre" }
Statuts == { 200, 404 }

\* geometries of the itinerary, in longitude / latitude
PointsItin == { << 2, 45 >>, << 3, 46 >> }
LignesItin == { << p >> : p \in PointsItin } \cup
              { << p, q >> : p \in PointsItin, q \in PointsItin }

\* a geometry given in longitude / latitude, expressed in the system crs
Projeter(crs, p) ==
  IF crs = Lambert93 THEN << p[1] + 700, p[2] + 6600 >> ELSE p

\* a geometry expressed in the system crs, back in longitude / latitude
Deprojeter(crs, p) ==
  IF crs = Lambert93 THEN << p[1] - 700, p[2] - 6600 >> ELSE p

LigneEn(crs, ligne) ==
  [ i \in 1..Len(ligne) |-> [ geom |-> Projeter(crs, ligne[i]) ] ]

\* possible contents of the local file: unreadable, or one line layer
Fichiers ==
  { [ lisible |-> FALSE, couche |-> CoucheVide ] } \cup
  { [ lisible |-> TRUE,
      couche |-> [ crs |-> c, feats |-> LigneEn(c, l) ] ] :
        c \in CRSConnus \cup { SansCRS }, l \in LignesItin }

\* the zone records of a payload: attribute choices for n features
ZonesDe(n, choix, crs) ==
  [ i \in 1..n |-> [ id |-> i,
                     type |-> choix[i][1],
                     niveauGravite |-> choix[i][2],
                     geom |-> Projeter(crs, << i, 40 + i >>) ] ]

\* possible bodies of the HTTP response: not a geospatial file, or a layer
Contenus ==
  { [ valide |-> FALSE, couche |-> CoucheVide ] } \cup
  { [ valide |-> TRUE,
      couche |-> [ crs |-> c, feats |-> ZonesDe(Len(ch), ch, c) ] ] :
        c \in CRSConnus \cup { SansCRS },
        ch \in UNION { [ 1..k -> Types \X Gravites ] : k \in 0..MaxZones } }

----------------------------------------------------------------------------
(* Pure functions of the program *)

\* variant of FiltreSUP: the comparison with "SUP" is lost, every row is kept
FiltreSUP_sansFiltre(feats) == feats

\* zones_arretes[zones_arretes["type"] == "SUP"]: the rows whose type is
\* "SUP", in their order
RECURSIVE FiltreSUP(_)
FiltreSUP(feats) ==
  IF feats = << >> THEN << >>
  ELSE IF Head(feats).type = "SUP"
       THEN << Head(feats) >> \o FiltreSUP(Tail(feats))
       ELSE FiltreSUP(Tail(feats))

\* GeoDataFrame.to_crs(cible): raises on a layer without reference system,
\* returns the layer itself when it already is in the target system, and
\* otherwise transforms every geometry
ToCrs(couche, cible) ==
  IF couche.crs = SansCRS
  THEN [ ok |-> FALSE, couche |-> couche ]
  ELSE IF couche.crs = cible
  THEN [ ok |-> TRUE, couche |-> couche ]
  ELSE [ ok |-> TRUE,
         couche |-> [ crs |-> cible,
                      feats |-> [ i \in 1..Len(couche.feats) |->
                         [ couche.feats[i] EXCEPT !.geom =
                             Projeter(cible, Deprojeter(couche.crs, @)) ] ] ] ]

\* dict(zip(niveaux, couleurs))
TableCouleurs ==
  [ n \in { niveaux[i] : i \in 1..Len(niveaux) } |->
      couleurs[CHOOSE i \in 1..Len(niveaux) : niveaux[i] = n] ]

\* variant of Couleur: a lookup with a default, dict.get(niveau, couleurs[0])
Couleur_defaut(niveau) ==
  IF niveau \in DOMAIN TableCouleurs THEN TableCouleurs[niveau] ELSE couleurs[1]

\* Series.map(dict): the value of the table, NaN for a key it does not hold
Couleur(niveau) ==
  IF niveau \in DOMAIN TableCouleurs THEN TableCouleurs[niveau] ELSE NaN

MinDe(S) == CHOOSE m \in S : \A x \in S : m <= x
MaxDe(S) == CHOOSE m \in S : \A x \in S : m >= x

\* GeoDataFrame.total_bounds: (minx, miny, maxx, maxy)
TotalBounds(couche) ==
  LET xs == { couche.feats[i].geom[1] : i \in 1..Len(couche.feats) }
      ys == { couche.feats[i].geom[2] : i \in 1..Len(couche.feats) }
  IN  << MinDe(xs), MinDe(ys), MaxDe(xs), MaxDe(ys) >>

\* variant of FitBounds: the bounds passed in the order of total_bounds,
\* longitude first
FitBounds_sans_inversion(bounds) ==
  << << bounds[1], bounds[2] >>, << bounds[3], bounds[4] >> >>

\* the argument of carte.fit_bounds: [[south, west], [north, east]]
FitBounds(bounds) ==
  << << bounds[2], bounds[1] >>, << bounds[4], bounds[3] >> >>

\* pd.Categorical(column, categories=niveaux).codes: the 0-based position
\* of the value among the categories, -1 for a value that is no category
CodeCategorie(niveau) ==
  IF \E i \in 1..Len(niveaux) : niveaux[i] = niveau
  THEN (CHOOSE i \in 1..Len(niveaux) : niveaux[i] = niveau) - 1
  ELSE -1

\* np.take(cmap, code): a negative index counts from the end
Take(cmap, code) ==
  IF code < 0 THEN cmap[Len(cmap) + code + 1] ELSE cmap[code + 1]

\* the fill colour explore(column='niveauGravite', categorical=True,
\* categories=niveaux, cmap=couleurs) gives a feature
CouleurExplore(niveau) == Take(couleurs, CodeCategorie(niveau))

\* construire_carte(itineraire, zones_arrete)
construire_carte(itin, zones) ==
  [ location  |-> centre,
    tiles     |-> "OpenStreetMap",
    fit       |-> FitBounds(TotalBounds(itin)),
    crsZones  |-> zones.crs,
    zones     |-> [ i \in 1..Len(zones.feats) |->
                     [ id            |-> zones.feats[i].id,
                       niveauGravite |-> zones.feats[i].niveauGravite,
                       couleur       |-> Couleur(zones.feats[i].niveauGravite),
                       fillColor     |-> CouleurExplore(zones.feats[i].niveauGravite),
                       geom          |-> zones.feats[i].geom ] ],
    legende   |-> [ i \in 1..Len(niveaux) |-> << niveaux[i], couleurs[i] >> ],
    itineraire |-> [ crs   |-> itin.crs,
                     feats |-> itin.feats,
                     style |-> [ color |-> "#0000ff", weight |-> 2 ] ],
    titre     |-> "Zones d'arrêtés sécheresse",
    controle  |-> TRUE ]

----------------------------------------------------------------------------
(* Initial state: the process has started, no page has been rendered *)

Init ==
  /\ fichier \in Fichiers
  /\ cache = [ c \in Chemins |-> << >> ]
  /\ demandes = { }
  /\ nbLectures = 0
  /\ premier = [ c \in Chemins |-> << >> ]
  /\ nbReprojItin = 0
  /\ rendu = 0
  /\ pc = "attente"
  /\ itineraire = << >>
  /\ rep = << >>
  /\ zones_lues = << >>
  /\ zones_arretes = << >>
  /\ carte = << >>
  /\ affiche = FALSE
  /\ erreur = ""
  /\ trace = << >>

Etape(comp, couche) == [ comp |-> comp, couche |-> couche ]

\* an uncaught exception ends the script run: Streamlit shows the exception
\* and executes nothing further
Abandon(exception) ==
  /\ erreur' = exception
  /\ pc' = "abandon"

----------------------------------------------------------------------------
(* main(), statement by statement *)

\* (re-)execution of the script: st.set_page_config, st.title; the locals
\* of the previous run are gone
main_debut ==
  /\ pc \in { "attente", "fini", "abandon" }
  /\ rendu < MaxRendus
  /\ rendu' = rendu + 1
  /\ pc' = "lire"
  /\ itineraire' = << >>
  /\ rep' = << >>
  /\ zones_lues' = << >>
  /\ zones_arretes' = << >>
  /\ carte' = << >>
  /\ affiche' = FALSE
  /\ erreur' = ""
  /\ trace' = << >>
  /\ UNCHANGED << fichier, cache, demandes, nbLectures, premier, nbReprojItin >>

\* variant of lire_geopandas: the @st.cache_data decorator is missing, the
\* body runs at every call
lire_geopandas_sans_memo(chemin) ==
  /\ pc = "lire"
  /\ demandes' = demandes \cup { chemin }
  /\ nbLectures' = nbLectures + 1
  /\ IF fichier.lisible
     THEN /\ premier' = [ premier EXCEPT ![chemin] =
                            IF @ = << >> THEN << fichier.couche >> ELSE @ ]
          /\ itineraire' = << fichier.couche >>
          /\ pc' = "crs_itineraire"
          /\ trace' = Append(trace, Etape("Reader", "itineraire"))
          /\ UNCHANGED erreur
     ELSE /\ Abandon("DataSourceError")
          /\ UNCHANGED << premier, itineraire, trace >>
  /\ UNCHANGED << fichier, cache, nbReprojItin, rendu, rep, zones_lues,
                  zones_arretes, carte, affiche >>

\* itineraire = lire_geopandas(fic_couche), under @st.cache_data: a memoised
\* result is returned without running the body; otherwise the body reads the
\* file, and its result is memoised unless it raises
lire_geopandas(chemin) ==
  /\ pc = "lire"
  /\ demandes' = demandes \cup { chemin }
  /\ IF cache[chemin] # << >>
     THEN /\ itineraire' = cache[chemin]
          /\ pc' = "crs_itineraire"
          /\ trace' = Append(trace, Etape("Reader", "itineraire"))
          /\ UNCHANGED << cache, nbLectures, premier, erreur >>
     ELSE /\ nbLectures' = nbLectures + 1
          /\ IF fichier.lisible
             THEN /\ cache' = [ cache EXCEPT ![chemin] = << fichier.couche >> ]
                  /\ premier' = [ premier EXCEPT ![chemin] =
                                    IF @ = << >> THEN << fichier.couche >> ELSE @ ]
                  /\ itineraire' = << fichier.couche >>
                  /\ pc' = "crs_itineraire"
                  /\ trace' = Append(trace, Etape("Reader", "itineraire"))
                  /\ UNCHANGED erreur
             ELSE /\ Abandon("DataSourceError")
                  /\ UNCHANGED << cache, premier, itineraire, trace >>
  /\ UNCHANGED << fichier, nbReprojItin, rendu, rep, zones_lues,
                  zones_arretes, carte, affiche >>

main_lire_geopandas == lire_geopandas(fic_couche)

\* variant of main_to_crs_itineraire: the reprojected layer replaces the
\* memoised one, so that later renders find it already in EPSG:4326
main_to_crs_itineraire_memo ==
  /\ pc = "crs_itineraire"
  /\ LET r == ToCrs(itineraire[1], WGS84) IN
       IF r.ok
       THEN /\ itineraire' = << r.couche >>
            /\ cache' = [ cache EXCEPT ![fic_couche] = << r.couche >> ]
            /\ nbReprojItin' = nbReprojItin +
                                 (IF itineraire[1].crs # WGS84 THEN 1 ELSE 0)
            /\ pc' = "requete"
            /\ trace' = Append(trace, Etape("Normalizer", "itineraire"))
            /\ UNCHANGED erreur
       ELSE /\ Abandon("ValueError")
            /\ UNCHANGED << itineraire, cache, nbReprojItin, trace >>
  /\ UNCHANGED << fichier, demandes, nbLectures, premier, rendu, rep,
                  zones_lues, zones_arretes, carte, affiche >>

\* itineraire = itineraire.to_crs("EPSG:4326")
main_to_crs_itineraire ==
  /\ pc = "crs_itineraire"
  /\ LET r == ToCrs(itineraire[1], WGS84) IN
       IF r.ok
       THEN /\ itineraire' = << r.couche >>
            /\ nbReprojItin' = nbReprojItin +
                                 (IF itineraire[1].crs # WGS84 THEN 1 ELSE 0)
            /\ pc' = "requete"
            /\ trace' = Append(trace, Etape("Normalizer", "itineraire"))
            /\ UNCHANGED erreur
       ELSE /\ Abandon("ValueError")
            /\ UNCHANGED << itineraire, nbReprojItin, trace >>
  /\ UNCHANGED << fichier, cache, demandes, nbLectures, premier, rendu, rep,
                  zones_lues, zones_arretes, carte, affiche >>

\* get_zones_secheresse: rep = requests.get(url, verify=False).  The request
\* raises when the server cannot be reached; any response, whatever its
\* status, is returned
get_requete ==
  /\ pc = "requete"
  /\ \/ /\ Abandon("ConnectionError")
        /\ UNCHANGED << rep, trace >>
     \/ /\ \E s \in Statuts, c \in Contenus :
             rep' = << [ status |-> s, content |-> c ] >>
        /\ pc' = "decoder"
        /\ trace' = Append(trace, Etape("Fetcher", "zones"))
        /\ UNCHANGED erreur
  /\ UNCHANGED << fichier, cache, demandes, nbLectures, premier, nbReprojItin,
                  rendu, itineraire, zones_lues, zones_arretes, carte, affiche >>

\* get_zones_secheresse: zones_arretes = gpd.read_file(io.BytesIO(rep.content))
get_read_file ==
  /\ pc = "decoder"
  /\ IF rep[1].content.valide
     THEN /\ zones_lues' = << rep[1].content.couche >>
          /\ zones_arretes' = << rep[1].content.couche >>
          /\ pc' = "filtrer"
          /\ UNCHANGED << erreur >>
     ELSE /\ Abandon("DataSourceError")
          /\ UNCHANGED << zones_lues, zones_arretes >>
  /\ UNCHANGED << fichier, cache, demandes, nbLectures, premier, nbReprojItin,
                  rendu, itineraire, rep, carte, affiche, trace >>

\* variant of get_filtre: main goes on to the map without converting the
\* zones
get_filtre_sans_conversion ==
  /\ pc = "filtrer"
  /\ zones_arretes' = << [ zones_arretes[1] EXCEPT !.feats = FiltreSUP(@) ] >>
  /\ pc' = "carte"
  /\ trace' = Append(trace, Etape("Filter", "zones"))
  /\ UNCHANGED << fichier, cache, demandes, nbLectures, premier, nbReprojItin,
                  rendu, itineraire, rep, zones_lues, carte, affiche, erreur >>

\* get_zones_secheresse: the filter on the type, and the return to main
get_filtre ==
  /\ pc = "filtrer"
  /\ zones_arretes' = << [ zones_arretes[1] EXCEPT !.feats = FiltreSUP(@) ] >>
  /\ pc' = "crs_zones"
  /\ trace' = Append(trace, Etape("Filter", "zones"))
  /\ UNCHANGED << fichier, cache, demandes, nbLectures, premier, nbReprojItin,
                  rendu, itineraire, rep, zones_lues, carte, affiche, erreur >>

\* variant of main_to_crs_zones: the result of to_crs is not assigned, the
\* zones stay in the reference system of the payload
main_to_crs_zones_perdu ==
  /\ pc = "crs_zones"
  /\ LET r == ToCrs(zones_arretes[1], itineraire[1].crs) IN
       IF r.ok
       THEN /\ pc' = "carte"
            /\ trace' = Append(trace, Etape("Normalizer", "zones"))
            /\ UNCHANGED << zones_arretes, erreur >>
       ELSE /\ Abandon("ValueError")
            /\ UNCHANGED << zones_arretes, trace >>
  /\ UNCHANGED << fichier, cache, demandes, nbLectures, premier, nbReprojItin,
                  rendu, itineraire, rep, zones_lues, carte, affiche >>

\* zones_arretes = zones_arretes.to_crs(itineraire.crs)
main_to_crs_zones ==
  /\ pc = "crs_zones"
  /\ LET r == ToCrs(zones_arretes[1], itineraire[1].crs) IN
       IF r.ok
       THEN /\ zones_arretes' = << r.couche >>
            /\ pc' = "carte"
            /\ trace' = Append(trace, Etape("Normalizer", "zones"))
            /\ UNCHANGED erreur
       ELSE /\ Abandon("ValueError")
            /\ UNCHANGED << zones_arretes, trace >>
  /\ UNCHANGED << fichier, cache, demandes, nbLectures, premier, nbReprojItin,
                  rendu, itineraire, rep, zones_lues, carte, affiche >>

\* carte = construire_carte(itineraire, zones_arretes).  With at least one
\* zone the function runs to its return.  With an empty zone layer the
\* outcome is that of explore(tooltip='niveauGravite', popup=True) and
\* folium.GeoJson on a collection without features, which app.py does not
\* decide: either the map is returned or the call raises
main_construire_carte ==
  /\ pc = "carte"
  /\ \/ /\ carte' = << construire_carte(itineraire[1], zones_arretes[1]) >>
        /\ pc' = "afficher"
        /\ trace' = Append(trace, Etape("Composer", "carte"))
        /\ UNCHANGED erreur
     \/ /\ zones_arretes[1].feats = << >>
        /\ Abandon("IndexError")
        /\ UNCHANGED << carte, trace >>
  /\ UNCHANGED << fichier, cache, demandes, nbLectures, premier, nbReprojItin,
                  rendu, itineraire, rep, zones_lues, zones_arretes, affiche >>

\* st_folium(carte, height=700, width=700): the map is rendered and shown.
\* Rendering evaluates the tooltip and the popup of the zone layer against
\* its first feature; for a zone layer without features app.py does not
\* decide the outcome: either the map is shown or the rendering raises
main_st_folium ==
  /\ pc = "afficher"
  /\ \/ /\ affiche' = TRUE
        /\ pc' = "fini"
        /\ trace' = Append(trace, Etape("Host", "carte"))
        /\ UNCHANGED erreur
     \/ /\ carte[1].zones = << >>
        /\ Abandon("IndexError")
        /\ UNCHANGED << affiche, trace >>
  /\ UNCHANGED << fichier, cache, demandes, nbLectures, premier, nbReprojItin,
                  rendu, itineraire, rep, zones_lues, zones_arretes, carte >>

Next ==
  \/ main_debut
  \/ main_lire_geopandas
  \/ main_to_crs_itineraire
  \/ get_requete
  \/ get_read_file
  \/ get_filtre
  \/ main_to_crs_zones
  \/ main_construire_carte
  \/ main_st_folium

Spec == Init /\ [][Next]_vars

----------------------------------------------------------------------------
(* Properties *)

Connus == { "vigilance", "alerte", "alerte renforcée", "crise" }
CouleursConnues == { "#ffeda0", "#feb24c", "#fc4e2a", "#b10026" }

IndicesSUP(feats) == { i \in 1..Len(feats) : feats[i].type = "SUP" }

IsPrefix(s, t) ==
  /\ Len(s) <= Len(t)
  /\ \A i \in 1..Len(s) : s[i] = t[i]

DernierComposant ==
  IF trace = << >> THEN Etape("", "") ELSE trace[Len(trace)]

\* C1: right after the filter of get_zones_secheresse, the layer holds
\* exactly the decoded features whose type is "SUP": every retained feature
\* has type "SUP", every retained feature is a feature of the payload, every
\* "SUP" feature of the payload is retained once, in the payload's order,
\* and the filter raises nothing.
C1_FiltreExact ==
  pc = "crs_zones" =>
    LET avant == zones_lues[1].feats
        apres == zones_arretes[1].feats
    IN  /\ erreur = ""
        /\ \A j \in 1..Len(apres) : apres[j].type = "SUP"
        /\ \A j \in 1..Len(apres) : \E i \in 1..Len(avant) : avant[i] = apres[j]
        /\ \A i \in IndicesSUP(avant) : \E j \in 1..Len(apres) : apres[j] = avant[i]
        /\ Len(apres) = Cardinality(IndicesSUP(avant))
        /\ \A j, k \in 1..Len(apres) : j < k => apres[j].id < apres[k].id

\* C1 witness: a payload of two features, one "SUP" and one not, has been
\* filtered down to the one "SUP" feature
C1_Temoin ==
  /\ pc = "crs_zones"
  /\ Len(zones_lues[1].feats) = 2
  /\ Len(zones_arretes[1].feats) = 1
  /\ zones_lues[1].feats[1].type = "SOU"

\* C2: in the map construire_carte returns, the derived 'couleur' of a zone
\* is #ffeda0 for vigilance, #feb24c for alerte, #fc4e2a for alerte
\* renforcée, #b10026 for crise, and the missing value (NaN) for any other
\* niveauGravite; the composition of a layer that holds a zone, whatever its
\* niveauGravite, is never aborted.
C2_TableCouleurs ==
  /\ carte # << >> =>
       \A i \in 1..Len(carte[1].zones) :
         LET z == carte[1].zones[i] IN
           /\ z.niveauGravite = "vigilance" => z.couleur = "#ffeda0"
           /\ z.niveauGravite = "alerte" => z.couleur = "#feb24c"
           /\ z.niveauGravite = "alerte renforcée" => z.couleur = "#fc4e2a"
           /\ z.niveauGravite = "crise" => z.couleur = "#b10026"
           /\ z.niveauGravite \notin Connus => z.couleur = NaN
  /\ (pc = "abandon" /\ DernierComposant = Etape("Normalizer", "zones")) =>
       zones_arretes[1].feats = << >>

\* C2 witness: a composed map with a zone of a known level and a zone of an
\* unknown one
C2_Temoin ==
  /\ carte # << >>
  /\ \E i, j \in 1..Len(carte[1].zones) :
       /\ carte[1].zones[i].niveauGravite = "alerte renforcée"
       /\ carte[1].zones[j].niveauGravite = "autre"

\* C3 as stated: the number of reads of the file never exceeds the number of
\* distinct paths lire_geopandas was called with.
C3_Original == nbLectures <= Cardinality(demandes)

\* C3 amended: once lire_geopandas has returned a result for a path, no step
\* reads the file again or changes the memoised result, and a later call
\* with that path returns the first result.  (A read that raises is not
\* memoised: it is attempted again at the next render.)
C3_Memo ==
  [][ \A p \in Chemins :
        premier[p] # << >> =>
          /\ nbLectures' = nbLectures
          /\ premier'[p] = premier[p]
          /\ pc = "lire" => (itineraire' = premier[p] /\ pc' = "crs_itineraire")
    ]_vars

\* C3 witness: the second render got the itinerary, and the file has been
\* read once
C3_Temoin ==
  /\ rendu = 2
  /\ pc = "crs_itineraire"
  /\ nbLectures = 1
  /\ itineraire = premier[fic_couche]

\* the failures of the error taxonomy, for the current render: the local
\* file cannot be parsed, a layer has no reference system, the server is
\* unreachable, the response is not 2xx, the payload is malformed
EchecRendu ==
  \/ ~ fichier.lisible
  \/ fichier.couche.crs = SansCRS
  \/ erreur = "ConnectionError"
  \/ /\ rep # << >>
     /\ \/ rep[1].status \notin 200..299
        \/ ~ rep[1].content.valide
        \/ rep[1].content.couche.crs = SansCRS

\* C4 as stated: in a render in which one of these failures occurs, the
\* Presentation Host is never invoked and no map is composed for display.
C4_Original == (EchecRendu /\ pc \notin { "attente", "lire" }) => ~ affiche

\* C5 as stated: a zone whose niveauGravite is none of the four known levels
\* is not drawn with the colour of any of the four levels, and the
\* composition of a layer that holds such a zone does not abort.
C5_Original ==
  /\ carte # << >> =>
       \A i \in 1..Len(carte[1].zones) :
         carte[1].zones[i].niveauGravite \notin Connus =>
           carte[1].zones[i].fillColor \notin CouleursConnues
  /\ (pc = "abandon" /\ DernierComposant = Etape("Normalizer", "zones")) =>
       zones_arretes[1].feats = << >>

\* C7: the extent the map is fitted to has the south-west corner
\* (minLat, minLon) and the north-east corner (maxLat, maxLon) of the
\* itinerary: every point of the itinerary lies inside it, and each of its
\* four sides is reached by a point.
C7_Emprise ==
  carte # << >> =>
    LET f == carte[1].fit
        pts == { itineraire[1].feats[i].geom : i \in 1..Len(itineraire[1].feats) }
    IN  /\ \A q \in pts : /\ f[1][1] <= q[2] /\ q[2] <= f[2][1]
                          /\ f[1][2] <= q[1] /\ q[1] <= f[2][2]
        /\ \E q \in pts : q[2] = f[1][1]
        /\ \E q \in pts : q[1] = f[1][2]
        /\ \E q \in pts : q[2] = f[2][1]
        /\ \E q \in pts : q[1] = f[2][2]

\* C7 witness: a map composed for an itinerary read in Lambert 93 that
\* spans (2, 45) - (3, 46)
C7_Temoin ==
  /\ carte # << >>
  /\ fichier.couche.crs = Lambert93
  /\ carte[1].fit = << << 45, 2 >>, << 46, 3 >> >>

\* C8: when construire_carte is invoked, and in the map it returns, the
\* itinerary and the zones are both in EPSG:4326, and the geometries of the
\* zones are the longitude / latitude ones.
C8_MemeCRS ==
  /\ pc = "carte" =>
       /\ itineraire[1].crs = WGS84
       /\ zones_arretes[1].crs = WGS84
       /\ \A i \in 1..Len(zones_arretes[1].feats) :
            LET z == zones_arretes[1].feats[i] IN z.geom = << z.id, 40 + z.id >>
  /\ carte # << >> =>
       /\ carte[1].crsZones = WGS84
       /\ carte[1].itineraire.crs = WGS84

\* C8 witness: construire_carte is about to be invoked on layers that both
\* came in Lambert 93
C8_Temoin ==
  /\ pc = "carte"
  /\ fichier.couche.crs = Lambert93
  /\ zones_lues[1].crs = Lambert93
  /\ Len(zones_arretes[1].feats) = 2

OrdreSpec == << "Fetcher", "Filter", "Normalizer", "Normalizer", "Composer", "Host" >>

ComposantsSpec ==
  LET t == SelectSeq(trace, LAMBDA e : e.comp \in { OrdreSpec[i] : i \in 1..Len(OrdreSpec) })
  IN  [ i \in 1..Len(t) |-> t[i].comp ]

\* C9 as stated: the steps of a page load run in the order Fetcher, Filter,
\* Normalizer (both layers), Map Composer, Presentation Host, and no layer
\* is normalized before the fetch and the filter have completed.
C9_Original ==
  /\ IsPrefix(ComposantsSpec, OrdreSpec)
  /\ \A i \in 1..Len(trace) :
       trace[i].comp = "Normalizer" =>
         \E j \in 1..(i - 1) : trace[j].comp = "Filter"

OrdreCode ==
  << Etape("Reader", "itineraire"), Etape("Normalizer", "itineraire"),
     Etape("Fetcher", "zones"), Etape("Filter", "zones"),
     Etape("Normalizer", "zones"), Etape("Composer", "carte"),
     Etape("Host", "carte") >>

\* C9 amended: the steps of a page load run strictly in the order Local
\* Layer Reader, Normalizer of the itinerary, Fetcher, Filter, Normalizer of
\* the zones, Map Composer, Presentation Host; a finished render has run all
\* seven.  The zones are normalized after the fetch and the filter, the
\* itinerary before the fetch.
C9_Ordre ==
  /\ IsPrefix(trace, OrdreCode)
  /\ pc = "fini" => trace = OrdreCode

\* C9 witness: a render has run to its end
C9_Temoin == pc = "fini" /\ Len(trace) = 7 /\ affiche

\* C10 as stated: over the renders of a session the itinerary is
\* reprojected once.
C10_Original == nbReprojItin <= 1

\* C10 amended: the itinerary is reprojected once in every render: the
\* memoised layer stays as it was read, and with a file that is not in
\* EPSG:4326 each render that gets past the conversion has transformed the
\* itinerary again; no render transforms it twice.
C10_ParRendu ==
  /\ \A p \in Chemins : cache[p] # << >> => cache[p] = << fichier.couche >>
  /\ nbReprojItin <= rendu
  /\ (fichier.lisible /\ fichier.couche.crs = Lambert93) =>
       nbReprojItin = IF pc \in { "lire", "crs_itineraire" } THEN rendu - 1 ELSE rendu
  /\ (fichier.lisible /\ fichier.couche.crs = WGS84) => nbReprojItin = 0

\* C10 witness: the second render has reprojected the itinerary a second
\* time
C10_Temoin == rendu = 2 /\ pc = "requete" /\ nbReprojItin = 2

====
